---- MODULE Spec2Model ----
(***************************************************************************)
(* Model of the photo upload path of the "rate the people" application:    *)
(* adminAddHandler, processJPEGForDB, applyEXIFOrientation with its pixel  *)
(* remaps, and fitWithin (src/main.go, second program of the file).        *)
(*                                                                         *)
(* Three specifications share the module:                                  *)
(*   SpecFit  fitWithin as a pure function over bounded arguments          *)
(*   SpecPix  applyEXIFOrientation over small, fully followed buffers      *)
(*   Spec     the upload requests, step by step, against the people table  *)
(***************************************************************************)
EXTENDS Integers, Sequences, FiniteSets, TLC

VARIABLES
    fitIn,      \* SpecFit: the arguments [w, h, maxW, maxH] of the call
    fitOut,     \* SpecFit: <<>> before the call, <<dstW, dstH>> after it
    pixIn,      \* SpecPix: the test image handed to applyEXIFOrientation
    pixCode,    \* SpecPix: the orientation code of the call
    pixOut,     \* SpecPix: the image the call returned (NoImage before)
    pixBack,    \* SpecPix: the image after the inverse code (NoImage before)
    people,     \* Spec: rows of table people, in insertion order
    pc,         \* Spec: position of each request in adminAddHandler
    req,        \* Spec: the request as received [method, pass, hasFile, readOK, name, upload]
    orientation,\* Spec: local "orientation" of processJPEGForDB
    srcImg,     \* Spec: local "srcImg" of processJPEGForDB
    dstDims,    \* Spec: <<dstW, dstH>> of the buffer "dst"
    processed,  \* Spec: bytes returned by processJPEGForDB
    inserted,   \* Spec: image argument of the INSERT the request executed
    resp,       \* Spec: response written to the client, <<>> while none
    trace,      \* Spec: pipeline states the request went through
    workload,   \* Spec, SpecConc: [rows, menu] the clients' requests are drawn from
    variant,    \* which of the source variants is running
    votes,      \* SpecHome: rows of table votes, in insertion order
    sortOrder,  \* SpecHome: value of the settings row 'sort_order'
    hresp,      \* SpecHome: the last response written, <<>> while none
    jar,        \* SpecSession: cookie "admin" each client's browser holds
    loggedIn,   \* SpecSession: the client's password was accepted, no /logout since
    sresp       \* SpecSession: the last response written, <<>> while none

vars == <<fitIn, fitOut, pixIn, pixCode, pixOut, pixBack, people, pc, req,
          orientation, srcImg, dstDims, processed, inserted, resp, trace,
          workload, variant, votes, sortOrder, hresp, jar, loggedIn, sresp>>

fitVars == <<fitIn, fitOut>>
pixVars == <<pixIn, pixCode, pixOut, pixBack>>
envVars == <<workload, variant>>
reqVars == <<people, pc, req, orientation, srcImg, dstDims, processed, inserted,
             resp, trace, envVars>>
homeVars == <<votes, sortOrder, hresp>>
sessVars == <<jar, loggedIn, sresp>>

(***************************************************************************)
(* Bounds of the model.                                                    *)
(***************************************************************************)
MaxSrc == 7       \* source widths and heights -1..MaxSrc are enumerated
MaxBox == 5       \* bounding boxes -1..MaxBox are enumerated
MaxDim == 3       \* test buffers of SpecPix are up to MaxDim x MaxDim
MaxPeople == 1    \* rows the people table may hold
NumReqs == 1      \* request slots served at the same time
NumConc == 2      \* SpecConc: upload requests in flight at the same time
MaxListed == 2    \* SpecHome: rows the people table may hold
MaxVotes == 2     \* SpecHome: rows the votes table may hold
MaxAdded == 2     \* SpecSession: rows the people table may hold

\* Sizes of real photographs and the sizes at which float64 rounding shows.
PhotoSizes == {47, 200, 300, 400, 561, 3000, 4000}
SrcSizes == (-1 .. MaxSrc) \cup PhotoSizes
BoxSizes == (-1 .. MaxBox) \cup {512}

(***************************************************************************)
(* float64 arithmetic of fitWithin, exact for 1 <= num <= den < 2^15 and   *)
(* 1 <= x < 2^15.  scale = num/den rounded to nearest (53-bit mantissa):   *)
(* with k the least exponent such that den <= num * 2^k, the mantissa is   *)
(* M = round(N / den), N = num * 2^(52+k), so that                         *)
(*   scale = (N + delta) / den * 2^-(52+k),  delta = den*c - (N mod den),  *)
(* c = 1 when M was rounded up.  Then float64(x) * scale is the exact      *)
(* product x*num/den + x*delta/den * 2^-(52+k) rounded to nearest, and     *)
(* int() truncates it.                                                     *)
(***************************************************************************)
RECURSIVE Pow2Mod(_, _)
Pow2Mod(n, m) == IF n = 0 THEN 1 % m ELSE (2 * Pow2Mod(n - 1, m)) % m

RECURSIVE Log2Floor(_)
Log2Floor(n) == IF n <= 1 THEN 0 ELSE 1 + Log2Floor(n \div 2)

RECURSIVE ScaleExp(_, _, _)
ScaleExp(num, den, k) == IF den <= num * (2 ^ k) THEN k ELSE ScaleExp(num, den, k + 1)

\* delta of the rounded quotient float64(num) / float64(den): its sign is
\* the direction in which the division was rounded.  A tie (2r = den) would
\* need den >= 2^53.
QuotientDelta(num, den) ==
    LET k == ScaleExp(num, den, 0)
        r == ((num % den) * Pow2Mod(52 + k, den)) % den
    IN  IF 2 * r > den THEN den - r ELSE 0 - r

\* int(float64(x) * scale), scale = float64(num) / float64(den), num <= den.
TruncMul(x, num, den) ==
    LET q     == (x * num) \div den
        t     == (x * num) % den
        k     == ScaleExp(num, den, 0)
        delta == QuotientDelta(num, den)
        \* doubles right below q are 2^(e-52) apart
        e     == Log2Floor(2 * q - 1) - 1
    IN  IF t # 0 THEN q
        ELSE IF delta >= 0 THEN q
        \* product q - eps: rounds back to q iff eps <= half the spacing
        ELSE IF (2 * x * (0 - delta) - 1) \div den >= 2 ^ (e + k) THEN q - 1
        ELSE q

\* A plausible slip: the early return of the no-upscale policy is missing.
fitWithin_upscale(w, h, maxW, maxH) ==
    IF w <= 0 \/ h <= 0 THEN <<maxW, maxH>>
    ELSE IF maxH * w < maxW * h
         THEN <<(w * maxH) \div h, maxH>>
         ELSE <<maxW, (h * maxW) \div w>>

\* A plausible slip: a source smaller than the box is given the box's size.
fitWithin_box(w, h, maxW, maxH) ==
    IF w <= 0 \/ h <= 0 THEN <<maxW, maxH>>
    ELSE
      LET useH == maxH * w < maxW * h
          num  == IF useH THEN maxH ELSE maxW
          den  == IF useH THEN h ELSE w
      IN  IF num > den THEN <<maxW, maxH>>
          ELSE IF num >= 1 THEN <<TruncMul(w, num, den), TruncMul(h, num, den)>>
          ELSE IF num = 0 THEN <<0, 0>>
          ELSE <<0 - TruncMul(w, 0 - num, den), 0 - TruncMul(h, 0 - num, den)>>

\* A plausible slip: the guard asks for both dimensions to be malformed, and
\* a single malformed one scales to an empty buffer.
fitWithin_and(w, h, maxW, maxH) ==
    IF w <= 0 /\ h <= 0 THEN <<maxW, maxH>>
    ELSE IF w <= 0 \/ h <= 0 THEN <<0, 0>>
    ELSE
      LET useH == maxH * w < maxW * h
          num  == IF useH THEN maxH ELSE maxW
          den  == IF useH THEN h ELSE w
      IN  IF num > den THEN <<w, h>>
          ELSE IF num >= 1 THEN <<TruncMul(w, num, den), TruncMul(h, num, den)>>
          ELSE IF num = 0 THEN <<0, 0>>
          ELSE <<0 - TruncMul(w, 0 - num, den), 0 - TruncMul(h, 0 - num, den)>>

\* func fitWithin(w, h, maxW, maxH int) (int, int)
\* A box side of 0 gives scale 0; a negative one gives a negative scale,
\* whose products are the negated products of its absolute value (float64
\* rounding and int() are symmetric about 0).  -1 is the only negative side
\* enumerated, so that |num| <= den.
fitWithin(w, h, maxW, maxH) ==
    IF w <= 0 \/ h <= 0 THEN <<maxW, maxH>>
    ELSE
      LET useH == maxH * w < maxW * h            \* rh < rw
          num  == IF useH THEN maxH ELSE maxW    \* scale = num / den
          den  == IF useH THEN h ELSE w
      IN  IF num > den THEN <<w, h>>             \* scale > 1: no upscaling
          ELSE IF num >= 1 THEN <<TruncMul(w, num, den), TruncMul(h, num, den)>>
          ELSE IF num = 0 THEN <<0, 0>>
          ELSE <<0 - TruncMul(w, 0 - num, den), 0 - TruncMul(h, 0 - num, den)>>

(***************************************************************************)
(* Images.  An image is its bounds and the pixels the model follows: all   *)
(* of them for the small buffers of SpecPix, the four corners for the      *)
(* photographs of the upload requests.  pix maps <<x, y>> to a colour,     *)
(* nset counts the calls of Set on the pixel since the buffer was made.    *)
(* A colour is [model, v]; image.Decode of a JPEG gives colours of model   *)
(* "YCbCr", an *image.RGBA holds colours of model "RGBA".                  *)
(***************************************************************************)
NoImage == [w |-> 0, h |-> 0, minX |-> 0, minY |-> 0, pix |-> <<>>, nset |-> <<>>]

\* image.NewRGBA(image.Rect(0, 0, w, h)): no pixel set yet.
NewRGBA(w, h) == [w |-> w, h |-> h, minX |-> 0, minY |-> 0, pix |-> <<>>, nset |-> <<>>]

\* Point{x, y}.In(p.Rect), the guard of (*image.RGBA).Set.
InRect(p, img) ==
    /\ img.minX <= p[1] /\ p[1] < img.minX + img.w
    /\ img.minY <= p[2] /\ p[2] < img.minY + img.h

\* color.RGBAModel.Convert, applied by (*image.RGBA).Set to the colour it
\* stores: the result is an RGBA colour whatever the model of the source.
RGBAModelConvert(c) == [model |-> "RGBA", v |-> c.v]

\* Position of the source pixel p in the loops "for y ... for x ...".
LoopIndex(src, p) == (p[2] - src.minY) * src.w + (p[1] - src.minX)

\* The loop body dst.Set(to, src.At(from)) run for every write of the loop:
\* a write outside dst is dropped, the last write to a pixel wins.
SetAll(dst, src, writes) ==
    LET inb     == {wr \in writes : InRect(wr.to, dst)}
        targets == {wr.to : wr \in inb}
        Last(p) == CHOOSE wr \in inb :
                      /\ wr.to = p
                      /\ \A o \in inb : o.to = p =>
                            LoopIndex(src, o.from) <= LoopIndex(src, wr.from)
    IN  [dst EXCEPT
           !.pix  = [p \in targets |-> RGBAModelConvert(src.pix[Last(p).from])],
           !.nset = [p \in targets |-> Cardinality({wr \in inb : wr.to = p})]]

\* func flipHorizontal(src image.Image) image.Image
flipHorizontal(src) ==
    LET maxX == src.minX + src.w
    IN  SetAll(NewRGBA(src.w, src.h), src,
               {[to   |-> <<maxX - 1 - (p[1] - src.minX), p[2] - src.minY>>,
                 from |-> p] : p \in DOMAIN src.pix})

\* A plausible slip: the rows are mirrored around the width instead of the
\* height.
flipVertical_slip(src) ==
    SetAll(NewRGBA(src.w, src.h), src,
           {[to   |-> <<p[1] - src.minX, src.minY + src.w - 1 - (p[2] - src.minY)>>,
             from |-> p] : p \in DOMAIN src.pix})

\* func flipVertical(src image.Image) image.Image
flipVertical(src) ==
    LET maxY == src.minY + src.h
    IN  SetAll(NewRGBA(src.w, src.h), src,
               {[to   |-> <<p[1] - src.minX, maxY - 1 - (p[2] - src.minY)>>,
                 from |-> p] : p \in DOMAIN src.pix})

\* func rotate90CW(src image.Image) image.Image
\* (x, y of the loop are p[1] - minX, p[2] - minY)
rotate90CW(src) ==
    LET w == src.w
        h == src.h
    IN  SetAll(NewRGBA(h, w), src,
               {[to   |-> <<h - 1 - (p[2] - src.minY), p[1] - src.minX>>,
                 from |-> p] : p \in DOMAIN src.pix})

\* A plausible slip: the column index is not mirrored, which transposes the
\* image instead of rotating it.
rotate270CW_slip(src) ==
    SetAll(NewRGBA(src.h, src.w), src,
           {[to   |-> <<p[2] - src.minY, p[1] - src.minX>>,
             from |-> p] : p \in DOMAIN src.pix})

\* func rotate270CW(src image.Image) image.Image
rotate270CW(src) ==
    LET w == src.w
        h == src.h
    IN  SetAll(NewRGBA(h, w), src,
               {[to   |-> <<p[2] - src.minY, w - 1 - (p[1] - src.minX)>>,
                 from |-> p] : p \in DOMAIN src.pix})

\* func rotate180(src image.Image) image.Image
rotate180(src) == rotate90CW(rotate90CW(src))

\* A plausible slip: the orientation is read but never applied.
applyEXIFOrientation_ignored(img, o) == img

\* func applyEXIFOrientation(img image.Image, orientation int) image.Image
applyEXIFOrientation(img, o) ==
    CASE o = 1 -> img
      [] o = 2 -> flipHorizontal(img)
      [] o = 3 -> rotate180(img)
      [] o = 4 -> flipVertical(img)
      [] o = 5 -> rotate90CW(flipHorizontal(img))
      [] o = 6 -> rotate90CW(img)
      [] o = 7 -> rotate270CW(flipHorizontal(img))
      [] o = 8 -> rotate270CW(img)
      [] OTHER -> img

(***************************************************************************)
(* Rest states: each specification moves its own variables and leaves the  *)
(* others at rest.                                                         *)
(***************************************************************************)
Reqs == 1 .. NumReqs

FitAtRest == fitIn = <<>> /\ fitOut = <<>>

PixAtRest == pixIn = NoImage /\ pixCode = 0 /\ pixOut = NoImage /\ pixBack = NoImage

\* No request is being served in the slots S and table people is empty.
SlotsAtRest(S) ==
    /\ people = <<>>
    /\ pc = [r \in S |-> "idle"]
    /\ req = [r \in S |-> <<>>]
    /\ orientation = [r \in S |-> 0]
    /\ srcImg = [r \in S |-> NoImage]
    /\ dstDims = [r \in S |-> <<>>]
    /\ processed = [r \in S |-> <<>>]
    /\ inserted = [r \in S |-> <<>>]
    /\ resp = [r \in S |-> <<>>]
    /\ trace = [r \in S |-> <<>>]

ReqAtRest == SlotsAtRest(Reqs)

\* No client sends uploads.
NoRequests == workload = [rows |-> 0, menu |-> {}] /\ variant = "main"

\* Clients of the cookie-session program.
Clients == {"admin", "guest"}

\* createTables: no votes yet, INSERT ... ('sort_order', 'name').
HomeAtRest == votes = <<>> /\ sortOrder = "name" /\ hresp = <<>>

SessAtRest ==
    /\ jar = [c \in Clients |-> ""]
    /\ loggedIn = [c \in Clients |-> FALSE]
    /\ sresp = <<>>

(***************************************************************************)
(* SpecFit: one call of fitWithin on arguments drawn from the bounded sets.*)
(***************************************************************************)
InitFit ==
    /\ fitIn \in [w : SrcSizes, h : SrcSizes, maxW : BoxSizes, maxH : BoxSizes]
    /\ fitOut = <<>>
    /\ PixAtRest
    /\ ReqAtRest /\ NoRequests
    /\ HomeAtRest /\ SessAtRest

CallFitWithin ==
    /\ fitOut = <<>>
    /\ fitOut' = fitWithin(fitIn.w, fitIn.h, fitIn.maxW, fitIn.maxH)
    /\ UNCHANGED <<fitIn, pixVars, reqVars, homeVars, sessVars>>

NextFit == CallFitWithin

SpecFit == InitFit /\ [][NextFit]_vars

\* The call has returned for positive source dimensions.
FitReturned == fitOut # <<>> /\ fitIn.w > 0 /\ fitIn.h > 0

\* C1. No-upscale law: a source with W, H > 0 that fits the box (W <= maxW
\* and H <= maxH) is returned as (W, H), also when the scale is exactly 1.
NoUpscaleLaw ==
    (FitReturned /\ fitIn.w <= fitIn.maxW /\ fitIn.h <= fitIn.maxH)
        => fitOut = <<fitIn.w, fitIn.h>>

\* The boundary of C1: one side touches the box (scale exactly 1), the other
\* is strictly inside.
NoUpscaleWitness ==
    /\ FitReturned
    /\ fitIn.w = fitIn.maxW /\ fitIn.h < fitIn.maxH
    /\ fitOut = <<fitIn.w, fitIn.h>>

\* scale = min(maxW/W, maxH/H) as the exact fraction num/den.
ExactScale ==
    IF fitIn.maxH * fitIn.w < fitIn.maxW * fitIn.h
    THEN [num |-> fitIn.maxH, den |-> fitIn.h]
    ELSE [num |-> fitIn.maxW, den |-> fitIn.w]

Abs(n) == IF n < 0 THEN 0 - n ELSE n

Max2(a, b) == IF a > b THEN a ELSE b

\* dstW/dstH is W/H up to one pixel on one of the two axes:
\* |dstW*H - W*dstH| <= max(W, H), the cross-multiplied form.
AspectWithinOnePixel ==
    Abs(fitOut[1] * fitIn.h - fitIn.w * fitOut[2]) <= Max2(fitIn.w, fitIn.h)

\* C2. Downscale law: for W, H > 0 and scale < 1 the result satisfies
\* dstW <= maxW, dstH <= maxH, its aspect ratio is the source's up to one
\* pixel, and dstW, dstH are the truncations of scale*W and scale*H.
DownscaleLaw ==
    (FitReturned /\ ExactScale.num < ExactScale.den)
        => /\ fitOut[1] <= fitIn.maxW
           /\ fitOut[2] <= fitIn.maxH
           /\ AspectWithinOnePixel
           /\ fitOut[1] = (fitIn.w * ExactScale.num) \div ExactScale.den
           /\ fitOut[2] = (fitIn.h * ExactScale.num) \div ExactScale.den

\* C11. Normalization never increases the pixel dimensions: for W, H > 0
\* and any bounding box, dstW <= W and dstH <= H.
NeverLargerLaw ==
    FitReturned => (fitOut[1] <= fitIn.w /\ fitOut[2] <= fitIn.h)

\* The case of C11 where the box is wider than the source but lower: the
\* height decides the scale and both sides shrink or stay.
NeverLargerWitness ==
    /\ FitReturned
    /\ fitIn.maxW > fitIn.w /\ 1 <= fitIn.maxH /\ fitIn.maxH < fitIn.h
    /\ fitOut[1] <= fitIn.w /\ fitOut[2] < fitIn.h

\* C12. Malformed dimensions are not an error: when W <= 0 or H <= 0 the
\* call returns exactly (maxW, maxH).
MalformedLaw ==
    (fitOut # <<>> /\ (fitIn.w <= 0 \/ fitIn.h <= 0))
        => fitOut = <<fitIn.maxW, fitIn.maxH>>

\* The case of C12 where only one dimension is malformed and the box is
\* not square.
MalformedWitness ==
    /\ fitOut # <<>>
    /\ fitIn.w > 0 /\ fitIn.h <= 0
    /\ fitIn.maxW # fitIn.maxH
    /\ fitOut = <<fitIn.maxW, fitIn.maxH>>

\* C18. For W, H > 0 and maxW, maxH > 0 the call returns dstW >= 1 and
\* dstH >= 1, so that the buffer dst is never empty.
NonEmptyLaw ==
    (FitReturned /\ fitIn.maxW > 0 /\ fitIn.maxH > 0)
        => (fitOut[1] >= 1 /\ fitOut[2] >= 1)

(***************************************************************************)
(* SpecPix: applyEXIFOrientation on a test buffer, then the inverse code   *)
(* on its result.  The test image of a size has all pixels different, so   *)
(* no transform but the identity leaves it unchanged unless it is 1 x 1.   *)
(***************************************************************************)
Coords(w, h) == {<<x, y>> : x \in 0 .. w - 1, y \in 0 .. h - 1}

TestImage(w, h, model) ==
    [w |-> w, h |-> h, minX |-> 0, minY |-> 0,
     pix  |-> [p \in Coords(w, h) |-> [model |-> model, v |-> p[2] * w + p[1] + 1]],
     nset |-> [p \in Coords(w, h) |-> 0]]

\* The code that undoes a code: 6 and 8 undo each other, the others
\* themselves.
InverseCode(o) == CASE o = 6 -> 8 [] o = 8 -> 6 [] OTHER -> o

InitPix ==
    /\ \E w \in 1 .. MaxDim, h \in 1 .. MaxDim, m \in {"YCbCr", "RGBA"} :
          pixIn = TestImage(w, h, m)
    /\ pixCode \in 0 .. 9
    /\ pixOut = NoImage
    /\ pixBack = NoImage
    /\ FitAtRest
    /\ ReqAtRest /\ NoRequests
    /\ HomeAtRest /\ SessAtRest

ApplyOrientation ==
    /\ pixOut = NoImage
    /\ pixOut' = applyEXIFOrientation(pixIn, pixCode)
    /\ UNCHANGED <<pixIn, pixCode, pixBack, fitVars, reqVars, homeVars, sessVars>>

ApplyInverse ==
    /\ pixOut # NoImage
    /\ pixBack = NoImage
    /\ pixBack' = applyEXIFOrientation(pixOut, InverseCode(pixCode))
    /\ UNCHANGED <<pixIn, pixCode, pixOut, fitVars, reqVars, homeVars, sessVars>>

NextPix == ApplyOrientation \/ ApplyInverse

SpecPix == InitPix /\ [][NextPix]_vars

\* The 8-case table, written destination first: each grid gives, for every
\* destination coordinate, the value found there.
Grid(img) == [w |-> img.w, h |-> img.h, at |-> img.pix]

GMirrorH(g) ==
    [w |-> g.w, h |-> g.h,
     at |-> [p \in Coords(g.w, g.h) |-> g.at[<<g.w - 1 - p[1], p[2]>>]]]

GMirrorV(g) ==
    [w |-> g.w, h |-> g.h,
     at |-> [p \in Coords(g.w, g.h) |-> g.at[<<p[1], g.h - 1 - p[2]>>]]]

GRotate180(g) ==
    [w |-> g.w, h |-> g.h,
     at |-> [p \in Coords(g.w, g.h) |-> g.at[<<g.w - 1 - p[1], g.h - 1 - p[2]>>]]]

\* clockwise quarter turn: the left column becomes the top row
GRotate90CW(g) ==
    [w |-> g.h, h |-> g.w,
     at |-> [p \in Coords(g.h, g.w) |-> g.at[<<p[2], g.h - 1 - p[1]>>]]]

\* three clockwise quarter turns: the top row becomes the left column
GRotate270CW(g) ==
    [w |-> g.h, h |-> g.w,
     at |-> [p \in Coords(g.h, g.w) |-> g.at[<<g.w - 1 - p[2], p[1]>>]]]

OrientationTable(o, g) ==
    CASE o = 1 -> g
      [] o = 2 -> GMirrorH(g)
      [] o = 3 -> GRotate180(g)
      [] o = 4 -> GMirrorV(g)
      [] o = 5 -> GRotate90CW(GMirrorH(g))
      [] o = 6 -> GRotate90CW(g)
      [] o = 7 -> GRotate270CW(GMirrorH(g))
      [] o = 8 -> GRotate270CW(g)

\* C9. For codes 1..8 the returned image is the table's remap of the W x H
\* source: W x H for codes 1-4 and H x W for codes 5-8, every pixel holding
\* the source pixel of the table (as the RGBA buffer stores it for codes
\* 2-8), and every pixel of a destination buffer set exactly once.
PixelRemapLaw ==
    (pixOut # NoImage /\ pixCode \in 1 .. 8) =>
        LET g == OrientationTable(pixCode, Grid(pixIn))
        IN  /\ <<pixOut.w, pixOut.h>> =
                 IF pixCode \in 1 .. 4 THEN <<pixIn.w, pixIn.h>>
                                       ELSE <<pixIn.h, pixIn.w>>
            /\ <<pixOut.w, pixOut.h, pixOut.minX, pixOut.minY>> = <<g.w, g.h, 0, 0>>
            /\ DOMAIN pixOut.pix = Coords(g.w, g.h)
            /\ pixCode = 1 => pixOut = pixIn
            /\ pixCode # 1 =>
                 \A p \in Coords(g.w, g.h) :
                    /\ pixOut.pix[p] = RGBAModelConvert(g.at[p])
                    /\ pixOut.nset[p] = 1

\* A narrow quarter turn with a mirror: code 7 applied to a 3 x 2 image.
PixelRemapWitness ==
    /\ pixOut # NoImage /\ pixCode = 7
    /\ pixIn.w = 3 /\ pixIn.h = 2
    /\ pixOut.w = 2 /\ pixOut.h = 3
    /\ pixOut.pix[<<1, 2>>].v = pixIn.pix[<<2, 1>>].v
    /\ pixOut.pix[<<1, 0>>].v = pixIn.pix[<<0, 1>>].v

PixelBuffer(img) ==
    [w |-> img.w, h |-> img.h, minX |-> img.minX, minY |-> img.minY, pix |-> img.pix]

\* The image as an RGBA buffer holds it.
ToRGBA(img) == [img EXCEPT !.pix = [p \in DOMAIN img.pix |-> RGBAModelConvert(img.pix[p])]]

\* C10 as stated. For all 8 codes and every test image, the transform
\* followed by its inverse reproduces the original pixel buffer exactly.
RoundTripExact ==
    (pixBack # NoImage /\ pixCode \in 1 .. 8)
        => PixelBuffer(pixBack) = PixelBuffer(pixIn)

\* C10 as amended. For all 8 codes (6 and 8 undoing each other, the others
\* themselves) the transform followed by its inverse gives back the
\* original dimensions with every pixel at its original coordinate; the
\* buffer is the original exactly under code 1 and for an RGBA original,
\* and the original's conversion to RGBA otherwise.
RoundTripLaw ==
    (pixBack # NoImage /\ pixCode \in 1 .. 8)
        => PixelBuffer(pixBack) =
             PixelBuffer(IF pixCode = 1 THEN pixIn ELSE ToRGBA(pixIn))

\* Code 6 undone by code 8 on a 3 x 2 RGBA image.
RoundTripWitness ==
    /\ pixBack # NoImage /\ pixCode = 6
    /\ pixIn.w = 3 /\ pixIn.h = 2
    /\ pixIn.pix[<<0, 0>>].model = "RGBA"
    /\ pixOut.w = 2 /\ pixOut.h = 3
    /\ PixelBuffer(pixBack) = PixelBuffer(pixIn)

(***************************************************************************)
(* Spec: the upload requests.  An upload is described by what the decoders *)
(* make of its bytes: two uploads are the same bytes iff they are the same *)
(* record.                                                                 *)
(*   kind      what the header bytes are                                   *)
(*   w, h      the pixel dimensions image.Decode finds                     *)
(*   exif      outcome of exif.Decode, ex.Get(exif.Orientation), tag.Int   *)
(*   decodes   image.Decode succeeds                                       *)
(*   encodes   jpeg.Encode of the normalized buffer succeeds               *)
(***************************************************************************)
AdminPassword == "secret"

\* processJPEGForDB(imgBytes, 512, 512)
Box == 512

\* &jpeg.Options{Quality: 80}
JPEGQuality == 80

\* Decoders linked into the program: only image/jpeg is imported.
RegisteredFormats == {"jpeg"}

ExifOutcomes ==
    {[st |-> s, v |-> 0] : s \in {"absent", "corrupt", "notag", "notint"}}
        \cup {[st |-> "ok", v |-> n] : n \in 0 .. 9}

NoExif == [st |-> "absent", v |-> 0]

Jpeg(w, h, exif, decodes, encodes) ==
    [kind |-> "jpeg", w |-> w, h |-> h, exif |-> exif,
     decodes |-> decodes, encodes |-> encodes]

NotJpeg(kind) ==
    [kind |-> kind, w |-> 64, h |-> 64, exif |-> NoExif,
     decodes |-> FALSE, encodes |-> FALSE]

Uploads ==
    {Jpeg(300, 200, e, TRUE, TRUE) : e \in ExifOutcomes}
        \cup {Jpeg(4000, 3000, [st |-> "ok", v |-> o], TRUE, TRUE) : o \in {1, 6}}
        \cup {Jpeg(561, 400, NoExif, TRUE, TRUE),
              Jpeg(300, 200, NoExif, FALSE, TRUE),
              Jpeg(300, 200, NoExif, TRUE, FALSE),
              Jpeg(4000, 3000, [st |-> "corrupt", v |-> 0], TRUE, FALSE),
              NotJpeg("png"), NotJpeg("gif"), NotJpeg("unknown")}

Post(u) ==
    [method |-> "POST", pass |-> AdminPassword, hasFile |-> TRUE, readOK |-> TRUE,
     name |-> "n", upload |-> u]

Requests ==
    {Post(u) : u \in Uploads}
        \cup {[Post(u) EXCEPT !.method = "GET"] : u \in {NotJpeg("png")}}
        \cup {[Post(u) EXCEPT !.pass = "wrong"] : u \in {NotJpeg("png"), Jpeg(300, 200, NoExif, TRUE, TRUE)}}
        \cup {[Post(u) EXCEPT !.hasFile = FALSE] : u \in {NotJpeg("unknown")}}
        \cup {[Post(u) EXCEPT !.readOK = FALSE] : u \in {Jpeg(300, 200, NoExif, TRUE, TRUE)}}

\* image.DecodeConfig: the format of the first registered decoder whose
\* magic matches, an error when none does.
DecodeConfig(u) ==
    IF u.kind \in RegisteredFormats
    THEN [err |-> FALSE, format |-> u.kind]
    ELSE [err |-> TRUE, format |-> ""]

\* format == "jpeg" || format == "jpg"
IsJPEGFormat(format) == format \in {"jpeg", "jpg"}

\* A plausible slip: the range check of the tag value is missing.
ResolveOrientation_unchecked(exif) == IF exif.st = "ok" THEN exif.v ELSE 1

\* orientation := 1, replaced by the tag value only when exif.Decode, ex.Get
\* and tag.Int all succeed and the value is in 1..8.
ResolveOrientation(exif) ==
    IF exif.st = "ok" /\ exif.v >= 1 /\ exif.v <= 8 THEN exif.v ELSE 1

\* The corners of a w x h image.
Corners(w, h) == {<<x, y>> : x \in {0, w - 1}, y \in {0, h - 1}}

\* image.Decode of a JPEG: a zero-origin w x h image with YCbCr colours.  Of
\* its pixels the four corners are followed: 1 top left, 2 top right,
\* 3 bottom left, 4 bottom right.
DecodedImage(u) ==
    [w |-> u.w, h |-> u.h, minX |-> 0, minY |-> 0,
     pix  |-> [p \in Corners(u.w, u.h) |->
                 [model |-> "YCbCr",
                  v |-> 1 + (IF p[1] = 0 THEN 0 ELSE 1) + (IF p[2] = 0 THEN 0 ELSE 2)]],
     nset |-> [p \in Corners(u.w, u.h) |-> 0]]

\* The bytes as uploaded.
RawBytes(u) == [enc |-> "raw", bytes |-> u]

\* jpeg.Encode of the dstW x dstH buffer scaled from img.
EncodedBytes(dims, img) ==
    [enc |-> "jpeg", quality |-> JPEGQuality, w |-> dims[1], h |-> dims[2],
     pixels |-> PixelBuffer(img)]

\* func processJPEGForDB(data []byte, maxW, maxH int) ([]byte, error), run
\* from its first statement to its return.
processJPEGForDB(u, maxW, maxH) ==
    IF ~u.decodes THEN [err |-> TRUE, bytes |-> <<>>]
    ELSE
      LET img  == applyEXIFOrientation(DecodedImage(u), ResolveOrientation(u.exif))
          dims == fitWithin(img.w, img.h, maxW, maxH)
      IN  IF ~u.encodes THEN [err |-> TRUE, bytes |-> <<>>]
          ELSE [err |-> FALSE, bytes |-> EncodedBytes(dims, img)]

Response(code, body) == [code |-> code, body |-> body]

InFlight == Cardinality({r \in DOMAIN pc : pc[r] \notin {"idle", "done"}})

\* A request arrives at /admin/add.
Receive(r) ==
    /\ pc[r] = "idle"
    /\ Len(people) + InFlight < workload.rows
    /\ \E q \in workload.menu : req' = [req EXCEPT ![r] = q]
    /\ pc' = [pc EXCEPT ![r] = "auth"]
    /\ UNCHANGED <<people, orientation, srcImg, dstDims, processed, inserted, resp,
                   trace, envVars, fitVars,
                   pixVars, homeVars, sessVars>>

\* adminAddHandler up to imgBytes := buf.Bytes().
Authorize(r) ==
    /\ pc[r] = "auth"
    /\ LET q == req[r]
           refusal ==
               IF q.method # "POST" THEN Response(405, "Method not allowed")
               ELSE IF q.pass # AdminPassword THEN Response(401, "Unauthorized")
               ELSE IF ~q.hasFile THEN Response(400, "Image upload failed")
               ELSE IF ~q.readOK THEN Response(500, "Failed to read image")
               ELSE <<>>
       IN  IF refusal # <<>>
           THEN /\ resp' = [resp EXCEPT ![r] = refusal]
                /\ pc' = [pc EXCEPT ![r] = "done"]
                /\ UNCHANGED trace
           ELSE /\ trace' = [trace EXCEPT ![r] = <<"Received">>]
                /\ pc' = [pc EXCEPT ![r] = "detect"]
                /\ UNCHANGED resp
    /\ UNCHANGED <<people, req, orientation, srcImg, dstDims, processed, inserted,
                   envVars, fitVars,
                   pixVars, homeVars, sessVars>>

\* image.DecodeConfig and the choice of the branch.
DetectFormat(r) ==
    /\ pc[r] = "detect"
    /\ LET cfg == DecodeConfig(req[r].upload)
       IN  IF ~cfg.err /\ IsJPEGFormat(cfg.format)
           THEN /\ pc' = [pc EXCEPT ![r] = "exif"]
                /\ trace' = [trace EXCEPT ![r] = Append(@, "FormatDetected")]
           ELSE /\ pc' = [pc EXCEPT ![r] = "raw"]
                /\ trace' = [trace EXCEPT ![r] = @ \o <<"FormatDetected", "PassThrough">>]
    /\ UNCHANGED <<people, req, orientation, srcImg, dstDims, processed, inserted,
                   resp, envVars, fitVars,
                   pixVars, homeVars, sessVars>>

\* A plausible slip: an upload of no recognizable format is refused.
StoreRaw_reject(r) ==
    /\ pc[r] = "raw"
    /\ resp' = [resp EXCEPT ![r] = Response(415, "Unsupported image format")]
    /\ pc' = [pc EXCEPT ![r] = "done"]
    /\ UNCHANGED <<people, req, orientation, srcImg, dstDims, processed, inserted,
                   trace, envVars, fitVars,
                   pixVars, homeVars, sessVars>>

\* INSERT of imgBytes (the cfgErr branch and the non-JPEG branch) and the
\* response.
StoreRaw(r) ==
    /\ pc[r] = "raw"
    /\ \E dbOK \in BOOLEAN :
          IF dbOK
          THEN /\ people' = Append(people, [name |-> req[r].name,
                                            image |-> RawBytes(req[r].upload)])
               /\ inserted' = [inserted EXCEPT ![r] = RawBytes(req[r].upload)]
               /\ resp' = [resp EXCEPT ![r] = Response(303, "/")]
               /\ trace' = [trace EXCEPT ![r] = Append(@, "Stored")]
          ELSE /\ resp' = [resp EXCEPT ![r] = Response(500, "database error")]
               /\ UNCHANGED <<people, inserted, trace>>
    /\ pc' = [pc EXCEPT ![r] = "done"]
    /\ UNCHANGED <<req, orientation, srcImg, dstDims, processed, envVars, fitVars,
                   pixVars, homeVars, sessVars>>

\* processJPEGForDB: the EXIF block.
ReadOrientation(r) ==
    /\ pc[r] = "exif"
    /\ orientation' = [orientation EXCEPT ![r] = ResolveOrientation(req[r].upload.exif)]
    /\ pc' = [pc EXCEPT ![r] = "decode"]
    /\ UNCHANGED <<people, req, srcImg, dstDims, processed, inserted, resp, trace,
                   envVars, fitVars,
                   pixVars, homeVars, sessVars>>

\* A plausible slip: a photo that does not decode is stored as uploaded.
DecodeImage_fallback(r) ==
    /\ pc[r] = "decode"
    /\ IF req[r].upload.decodes
       THEN /\ srcImg' = [srcImg EXCEPT ![r] = DecodedImage(req[r].upload)]
            /\ pc' = [pc EXCEPT ![r] = "orient"]
            /\ UNCHANGED <<people, inserted, resp, trace>>
       ELSE /\ people' = Append(people, [name |-> req[r].name,
                                         image |-> RawBytes(req[r].upload)])
            /\ inserted' = [inserted EXCEPT ![r] = RawBytes(req[r].upload)]
            /\ resp' = [resp EXCEPT ![r] = Response(303, "/")]
            /\ trace' = [trace EXCEPT ![r] = Append(@, "Stored")]
            /\ pc' = [pc EXCEPT ![r] = "done"]
            /\ UNCHANGED srcImg
    /\ UNCHANGED <<req, orientation, dstDims, processed, envVars, fitVars,
                   pixVars, homeVars, sessVars>>

\* processJPEGForDB: image.Decode; on failure the error goes back to
\* adminAddHandler, which answers 500.
DecodeImage(r) ==
    /\ pc[r] = "decode"
    /\ IF req[r].upload.decodes
       THEN /\ srcImg' = [srcImg EXCEPT ![r] = DecodedImage(req[r].upload)]
            /\ pc' = [pc EXCEPT ![r] = "orient"]
            /\ UNCHANGED resp
       ELSE /\ resp' = [resp EXCEPT ![r] = Response(500, "Failed to process image")]
            /\ pc' = [pc EXCEPT ![r] = "done"]
            /\ UNCHANGED srcImg
    /\ UNCHANGED <<people, req, orientation, dstDims, processed, inserted, trace,
                   envVars, fitVars,
                   pixVars, homeVars, sessVars>>

\* processJPEGForDB: srcImg = applyEXIFOrientation(srcImg, orientation).
Orient(r) ==
    /\ pc[r] = "orient"
    /\ srcImg' = [srcImg EXCEPT ![r] = applyEXIFOrientation(@, orientation[r])]
    /\ trace' = [trace EXCEPT ![r] = Append(@, "OrientationResolved")]
    /\ pc' = [pc EXCEPT ![r] = "scale"]
    /\ UNCHANGED <<people, req, orientation, dstDims, processed, inserted, resp,
                   envVars, fitVars,
                   pixVars, homeVars, sessVars>>

\* A plausible slip: the working image is kept in a package-level variable,
\* where a request finds what any request decoded last.
Scale_shared(r) ==
    /\ pc[r] = "scale"
    /\ \E s \in DOMAIN pc :
          /\ srcImg[s] # NoImage
          /\ dstDims' = [dstDims EXCEPT ![r] = fitWithin(srcImg[s].w, srcImg[s].h, Box, Box)]
    /\ trace' = [trace EXCEPT ![r] = Append(@, "Scaled")]
    /\ pc' = [pc EXCEPT ![r] = "encode"]
    /\ UNCHANGED <<people, req, orientation, srcImg, processed, inserted, resp,
                   envVars, fitVars, pixVars, homeVars, sessVars>>

\* processJPEGForDB: fitWithin, the buffer dst and the ApproxBiLinear scale.
Scale(r) ==
    /\ pc[r] = "scale"
    /\ dstDims' = [dstDims EXCEPT ![r] = fitWithin(srcImg[r].w, srcImg[r].h, Box, Box)]
    /\ trace' = [trace EXCEPT ![r] = Append(@, "Scaled")]
    /\ pc' = [pc EXCEPT ![r] = "encode"]
    /\ UNCHANGED <<people, req, orientation, srcImg, processed, inserted, resp,
                   envVars, fitVars,
                   pixVars, homeVars, sessVars>>

\* A plausible slip: when the encoder fails the upload itself is handed on
\* for storage.
Encode_fallback(r) ==
    /\ pc[r] = "encode"
    /\ processed' = [processed EXCEPT ![r] =
          IF req[r].upload.encodes
          THEN EncodedBytes(dstDims[r], srcImg[r])
          ELSE RawBytes(req[r].upload)]
    /\ trace' = [trace EXCEPT ![r] = Append(@, "Encoded")]
    /\ pc' = [pc EXCEPT ![r] = "insert"]
    /\ UNCHANGED <<people, req, orientation, srcImg, dstDims, inserted, resp,
                   envVars, fitVars,
                   pixVars, homeVars, sessVars>>

\* A plausible slip: a photo that already fits the box is not re-encoded
\* (as the image handler of another variant serves it).
Encode_skipfit(r) ==
    /\ pc[r] = "encode"
    /\ IF req[r].upload.encodes
       THEN /\ processed' = [processed EXCEPT ![r] =
                  IF dstDims[r] = <<srcImg[r].w, srcImg[r].h>>
                  THEN RawBytes(req[r].upload)
                  ELSE EncodedBytes(dstDims[r], srcImg[r])]
            /\ trace' = [trace EXCEPT ![r] = Append(@, "Encoded")]
            /\ pc' = [pc EXCEPT ![r] = "insert"]
            /\ UNCHANGED resp
       ELSE /\ resp' = [resp EXCEPT ![r] = Response(500, "Failed to process image")]
            /\ pc' = [pc EXCEPT ![r] = "done"]
            /\ UNCHANGED <<processed, trace>>
    /\ UNCHANGED <<people, req, orientation, srcImg, dstDims, inserted, envVars, fitVars,
                   pixVars, homeVars, sessVars>>

\* processJPEGForDB: jpeg.Encode at quality 80; on failure the error goes
\* back to adminAddHandler, which answers 500.
Encode(r) ==
    /\ pc[r] = "encode"
    /\ IF req[r].upload.encodes
       THEN /\ processed' = [processed EXCEPT ![r] = EncodedBytes(dstDims[r], srcImg[r])]
            /\ trace' = [trace EXCEPT ![r] = Append(@, "Encoded")]
            /\ pc' = [pc EXCEPT ![r] = "insert"]
            /\ UNCHANGED resp
       ELSE /\ resp' = [resp EXCEPT ![r] = Response(500, "Failed to process image")]
            /\ pc' = [pc EXCEPT ![r] = "done"]
            /\ UNCHANGED <<processed, trace>>
    /\ UNCHANGED <<people, req, orientation, srcImg, dstDims, inserted, envVars, fitVars,
                   pixVars, homeVars, sessVars>>

\* INSERT of processed and the response.
StoreProcessed(r) ==
    /\ pc[r] = "insert"
    /\ \E dbOK \in BOOLEAN :
          IF dbOK
          THEN /\ people' = Append(people, [name |-> req[r].name, image |-> processed[r]])
               /\ inserted' = [inserted EXCEPT ![r] = processed[r]]
               /\ resp' = [resp EXCEPT ![r] = Response(303, "/")]
               /\ trace' = [trace EXCEPT ![r] = Append(@, "Stored")]
          ELSE /\ resp' = [resp EXCEPT ![r] = Response(500, "database error")]
               /\ UNCHANGED <<people, inserted, trace>>
    /\ pc' = [pc EXCEPT ![r] = "done"]
    /\ UNCHANGED <<req, orientation, srcImg, dstDims, processed, envVars, fitVars,
                   pixVars, homeVars, sessVars>>

\* The handler has returned; its locals are gone and the slot serves the
\* next request.
Finish(r) ==
    /\ pc[r] = "done"
    /\ pc' = [pc EXCEPT ![r] = "idle"]
    /\ req' = [req EXCEPT ![r] = <<>>]
    /\ orientation' = [orientation EXCEPT ![r] = 0]
    /\ srcImg' = [srcImg EXCEPT ![r] = NoImage]
    /\ dstDims' = [dstDims EXCEPT ![r] = <<>>]
    /\ processed' = [processed EXCEPT ![r] = <<>>]
    /\ inserted' = [inserted EXCEPT ![r] = <<>>]
    /\ resp' = [resp EXCEPT ![r] = <<>>]
    /\ trace' = [trace EXCEPT ![r] = <<>>]
    /\ UNCHANGED <<people, envVars, fitVars,
                   pixVars, homeVars, sessVars>>

Init ==
    /\ FitAtRest /\ PixAtRest /\ ReqAtRest
    /\ workload = [rows |-> MaxPeople, menu |-> Requests]
    /\ variant = "main"
    /\ HomeAtRest /\ SessAtRest

Next ==
    \E r \in Reqs :
        \/ Receive(r)
        \/ Authorize(r)
        \/ DetectFormat(r)
        \/ StoreRaw(r)
        \/ ReadOrientation(r)
        \/ DecodeImage(r)
        \/ Orient(r)
        \/ Scale(r)
        \/ Encode(r)
        \/ StoreProcessed(r)
        \/ Finish(r)

Spec == Init /\ [][Next]_vars

(***************************************************************************)
(* SpecConc: net/http serves every request on a goroutine of its own.      *)
(* NumConc requests run adminAddHandler at the same time, their steps      *)
(* interleaved in any order; the uploads are the kinds that take the       *)
(* different ways through the handler.                                     *)
(***************************************************************************)
ConcReqs == 1 .. NumConc

ConcUploads ==
    {Jpeg(4000, 3000, [st |-> "ok", v |-> 6], TRUE, TRUE),
     Jpeg(300, 200, NoExif, TRUE, TRUE),
     Jpeg(300, 200, NoExif, FALSE, TRUE),
     Jpeg(300, 200, NoExif, TRUE, FALSE),
     NotJpeg("png")}

InitConc ==
    /\ FitAtRest /\ PixAtRest /\ SlotsAtRest(ConcReqs)
    /\ workload = [rows |-> NumConc, menu |-> {Post(u) : u \in ConcUploads}]
    /\ variant = "main"
    /\ HomeAtRest /\ SessAtRest

NextConc ==
    \E r \in ConcReqs :
        \/ Receive(r)
        \/ Authorize(r)
        \/ DetectFormat(r)
        \/ StoreRaw(r)
        \/ ReadOrientation(r)
        \/ DecodeImage(r)
        \/ Orient(r)
        \/ Scale(r)
        \/ Encode(r)
        \/ StoreProcessed(r)
        \/ Finish(r)

SpecConc == InitConc /\ [][NextConc]_vars

(***************************************************************************)
(* SpecHome: the pages that vote, sort and list, over the tables people,   *)
(* votes and settings.  variant says which program runs: "main" is the     *)
(* Postgres program of main.go, "part_000" and "part_001" the unnamed      *)
(* ones.  A person's id is the position of its row (SERIAL, no DELETE).    *)
(* hresp is the last exchange: the handler, the status code and what the   *)
(* handler read and wrote.  /admin/add runs here in one step.              *)
(***************************************************************************)
HomeVariants == {"main", "part_000", "part_001"}

\* Names given to people, and where ORDER BY p.name puts them.
Names == {"ann", "bob"}

NameRank(n) == IF n = "ann" THEN 1 ELSE 2

\* SQL NULL, and a Go bool as a BOOLEAN column value.
Null == "NULL"

SqlBool(b) == IF b THEN "TRUE" ELSE "FALSE"

HomeAdds ==
    {[Post(Jpeg(300, 200, NoExif, TRUE, TRUE)) EXCEPT !.name = n] : n \in Names}
        \cup {[Post(NotJpeg("png")) EXCEPT !.pass = "wrong"]}

\* order values of /admin/sort: the three supported ones, none, and one
\* that is not a sort order.
SortWhitelist == {"name", "score_desc", "upvotes_desc"}

SortRequests ==
    {[method |-> "POST", pass |-> AdminPassword, order |-> o] :
        o \in SortWhitelist \cup {"", "name; DROP TABLE people"}}
        \cup {[method |-> "GET", pass |-> AdminPassword, order |-> "score_desc"],
              [method |-> "POST", pass |-> "wrong", order |-> "upvotes_desc"]}

\* person_id as strconv.Atoi returns it: [err, n].  The ids are those of the
\* rows, one beyond them, 0, and a text that is no number.
VoteRequests ==
    [method : {"POST"},
     person_id : {[err |-> TRUE, n |-> 0]}
                     \cup {[err |-> FALSE, n |-> i] : i \in 0 .. MaxListed + 1},
     vote : {"up", "down"}]
        \cup {[method |-> "POST", person_id |-> [err |-> FALSE, n |-> 1], vote |-> ""],
              [method |-> "GET", person_id |-> [err |-> FALSE, n |-> 1], vote |-> "up"]}

InitHome ==
    /\ FitAtRest /\ PixAtRest /\ ReqAtRest
    /\ workload = [rows |-> MaxListed, menu |-> HomeAdds]
    /\ variant \in HomeVariants
    /\ HomeAtRest /\ SessAtRest

\* adminAddHandler: main.go stores what processJPEGForDB makes of a JPEG,
\* the unnamed programs store the upload as it came.
adminAddHandler ==
    /\ Len(people) < workload.rows
    /\ \E q \in workload.menu, dbOK \in BOOLEAN :
          LET u    == q.upload
              cfg  == DecodeConfig(u)
              done == IF variant = "main" /\ ~cfg.err /\ IsJPEGFormat(cfg.format)
                      THEN processJPEGForDB(u, Box, Box)
                      ELSE [err |-> FALSE, bytes |-> RawBytes(u)]
              code == IF q.method # "POST" THEN 405
                      ELSE IF q.pass # AdminPassword THEN 401
                      ELSE IF ~q.hasFile THEN 400
                      ELSE IF done.err \/ ~dbOK THEN 500
                      ELSE 303
          IN  /\ people' = IF code = 303
                           THEN Append(people, [name |-> q.name, image |-> done.bytes])
                           ELSE people
              /\ hresp' = [handler |-> "add", code |-> code]
    /\ UNCHANGED <<pc, req, orientation, srcImg, dstDims, processed, inserted, resp,
                   trace, envVars, votes, sortOrder, fitVars, pixVars, sessVars>>

\* A plausible slip: the order is stored as it came, without the whitelist.
adminSortHandler_unlisted ==
    \E q \in SortRequests, dbOK \in BOOLEAN :
        LET code == IF q.method # "POST" THEN 405
                    ELSE IF q.pass # AdminPassword THEN 401
                    ELSE IF ~dbOK THEN 500
                    ELSE 303
        IN  /\ sortOrder' = IF code = 303 THEN q.order ELSE sortOrder
            /\ hresp' = [handler |-> "sort", code |-> code, req |-> q, before |-> sortOrder]
            /\ UNCHANGED <<reqVars, votes, fitVars, pixVars, sessVars>>

\* adminSortHandler, the same in the three programs.  hresp keeps the request
\* and the setting as it was before.
adminSortHandler ==
    \E q \in SortRequests, dbOK \in BOOLEAN :
        LET code == IF q.method # "POST" THEN 405
                    ELSE IF q.pass # AdminPassword THEN 401
                    ELSE IF q.order \notin {"name", "score_desc", "upvotes_desc"} THEN 400
                    ELSE IF ~dbOK THEN 500
                    ELSE 303
        IN  /\ sortOrder' = IF code = 303 THEN q.order ELSE sortOrder
            /\ hresp' = [handler |-> "sort", code |-> code, req |-> q, before |-> sortOrder]
            /\ UNCHANGED <<reqVars, votes, fitVars, pixVars, sessVars>>

\* voteHandler.  main.go refuses a person_id that is no number or not
\* positive; the unnamed programs pass Atoi's 0 on.  votes.person_id
\* REFERENCES people(id), so that the INSERT fails for an id of no row.
voteHandler ==
    /\ Len(votes) < MaxVotes
    /\ \E q \in VoteRequests, dbOK \in BOOLEAN :
          LET n    == q.person_id.n
              code == IF q.method # "POST" THEN 405
                      ELSE IF variant = "main" /\ (q.person_id.err \/ n <= 0) THEN 400
                      ELSE IF n \notin 1 .. Len(people) \/ ~dbOK THEN 500
                      ELSE 200
          IN  /\ votes' = IF code = 200
                          THEN Append(votes, [person_id |-> n,
                                              upvote |-> SqlBool(q.vote = "up")])
                          ELSE votes
              /\ hresp' = [handler |-> "vote", code |-> code]
    /\ UNCHANGED <<reqVars, sortOrder, fitVars, pixVars, sessVars>>

\* getSortOrder: the stored value, "name" when it is empty.
getSortOrder == IF sortOrder = "" THEN "name" ELSE sortOrder

\* The switch of homeHandler.
orderByClause(order) ==
    CASE order = "score_desc"   -> "score DESC, p.name"
      [] order = "upvotes_desc" -> "upvotes DESC, p.name"
      [] OTHER                  -> "p.name"

\* people p LEFT JOIN votes v ON p.id = v.person_id, the rows of person i:
\* its votes, or one row of NULLs when it has none.
LeftJoin(i) ==
    LET own == SelectSeq(votes, LAMBDA v : v.person_id = i)
    IN  IF own = <<>> THEN <<[person_id |-> Null, upvote |-> Null]>> ELSE own

RECURSIVE SumSeq(_)
SumSeq(q) == IF q = <<>> THEN 0 ELSE Head(q) + SumSeq(Tail(q))

\* A plausible slip: the CASE without its ELSE 0 branch for NULL.
scoreCase_nullneg(x) == IF x = "TRUE" THEN 1 ELSE 0 - 1

\* main.go, part_000: CASE WHEN v.upvote IS TRUE THEN 1
\*                         WHEN v.upvote IS FALSE THEN -1 ELSE 0 END
scoreCase(x) == IF x = "TRUE" THEN 1 ELSE IF x = "FALSE" THEN 0 - 1 ELSE 0

\* part_001: CASE WHEN v.upvote THEN 1 ELSE -1 END; a NULL condition is not
\* true, so that ELSE applies.
scoreCase001(x) == IF x = "TRUE" THEN 1 ELSE 0 - 1

\* CASE WHEN v.upvote [IS TRUE] THEN 1 ELSE 0 END
upvotesCase(x) == IF x = "TRUE" THEN 1 ELSE 0

\* One row of the result: SUM is over the joined rows of the group and is
\* never NULL there, so that COALESCE leaves it.
Person(i) ==
    LET j == LeftJoin(i)
    IN  [ID      |-> i,
         Name    |-> people[i].name,
         Score   |-> SumSeq([k \in 1 .. Len(j) |->
                              IF variant = "part_001" THEN scoreCase001(j[k].upvote)
                              ELSE scoreCase(j[k].upvote)]),
         Upvotes |-> SumSeq([k \in 1 .. Len(j) |-> upvotesCase(j[k].upvote)])]

\* Row a must come before row b under the ORDER BY clause.
Precedes(clause, a, b) ==
    CASE clause = "score DESC, p.name" ->
            a.Score > b.Score \/ (a.Score = b.Score /\ NameRank(a.Name) < NameRank(b.Name))
      [] clause = "upvotes DESC, p.name" ->
            a.Upvotes > b.Upvotes
                \/ (a.Upvotes = b.Upvotes /\ NameRank(a.Name) < NameRank(b.Name))
      [] OTHER -> NameRank(a.Name) < NameRank(b.Name)

\* The orders in which the query may return its rows: rows that the clause
\* does not tell apart come in any order.
QueryResults(clause) ==
    LET n == Len(people)
    IN  {[k \in 1 .. n |-> Person(f[k])] :
            f \in {g \in [1 .. n -> 1 .. n] :
                     /\ \A a, b \in 1 .. n : a # b => g[a] # g[b]
                     /\ \A a, b \in 1 .. n :
                           a < b => ~Precedes(clause, Person(g[b]), Person(g[a]))}}

\* homeHandler: the page lists the rows of the query.
homeHandler ==
    /\ LET clause == orderByClause(getSortOrder)
       IN  \E dbOK \in BOOLEAN :
              IF dbOK
              THEN \E rows \in QueryResults(clause) :
                      hresp' = [handler |-> "home", code |-> 200, orderBy |-> clause,
                                people |-> rows]
              ELSE hresp' = [handler |-> "home", code |-> 500, orderBy |-> clause,
                             people |-> <<>>]
    /\ UNCHANGED <<reqVars, votes, sortOrder, fitVars, pixVars, sessVars>>

NextHome == adminAddHandler \/ adminSortHandler \/ voteHandler \/ homeHandler

SpecHome == InitHome /\ [][NextHome]_vars

(***************************************************************************)
(* SpecSession: the sqlite program of main.go, whose admin pages are       *)
(* guarded by the cookie "admin".  Client "admin" knows the password,      *)
(* client "guest" does not.  jar is the cookie a client's browser holds    *)
(* ("" for none); a request carries the Cookie header its client writes,   *)
(* which a browser takes from the jar and any other HTTP client from       *)
(* where it likes.  loggedIn records that the client's password was        *)
(* accepted with no /logout since.  sresp is the last exchange.            *)
(***************************************************************************)
adminPassword == "macurate2025"

\* Passwords a client may type.
Typed(c) == IF c = "admin" THEN {adminPassword, "letmein"} ELSE {"letmein", ""}

\* Values of the Cookie header "admin" a client may send ("" for none).
CookieHeaders(c) == {jar[c], "", "true", "1"}

\* The form of /admin/add.
AddForms == {[name |-> n, photo |-> "photo.jpg"] : n \in {"ann", "bob"}}

InitSession ==
    /\ FitAtRest /\ PixAtRest /\ ReqAtRest
    /\ workload = [rows |-> MaxAdded, menu |-> AddForms]
    /\ variant = "cookie"
    /\ HomeAtRest /\ SessAtRest

\* adminHandler of the sqlite program.
cookieAdminHandler(c) ==
    /\ \E method \in {"GET", "POST"}, pass \in Typed(c) :
          IF method = "POST" /\ pass = adminPassword
          THEN /\ jar' = [jar EXCEPT ![c] = "true"]
               /\ loggedIn' = [loggedIn EXCEPT ![c] = TRUE]
               /\ sresp' = [handler |-> "admin", client |-> c, code |-> 303,
                            sent |-> "", inserted |-> FALSE]
          ELSE /\ sresp' = [handler |-> "admin", client |-> c,
                            code |-> IF method = "POST" THEN 401 ELSE 200,
                            sent |-> "", inserted |-> FALSE]
               /\ UNCHANGED <<jar, loggedIn>>
    /\ UNCHANGED <<reqVars, fitVars, pixVars, homeVars>>

\* adminAddHandler of the sqlite program.
cookieAdminAddHandler(c) ==
    /\ Len(people) < workload.rows
    /\ \E sent \in CookieHeaders(c), method \in {"GET", "POST"},
          form \in workload.menu, dbOK \in BOOLEAN :
          LET refused == sent = "" \/ sent # "true"   \* err != nil || cookie.Value != "true"
              stored  == ~refused /\ method = "POST" /\ dbOK
              code    == IF refused THEN 303
                         ELSE IF method # "POST" THEN 200
                         ELSE IF dbOK THEN 303 ELSE 500
          IN  /\ people' = IF stored
                           THEN Append(people, [name |-> form.name, photo |-> form.photo,
                                                score |-> 0])
                           ELSE people
              /\ sresp' = [handler |-> "add", client |-> c, code |-> code,
                           sent |-> sent, inserted |-> stored]
    /\ UNCHANGED <<pc, req, orientation, srcImg, dstDims, processed, inserted, resp,
                   trace, envVars, jar, loggedIn, fitVars, pixVars, homeVars>>

\* logoutHandler: the cookie is set to expire, and the browser drops it.
cookieLogoutHandler(c) ==
    /\ jar' = [jar EXCEPT ![c] = ""]
    /\ loggedIn' = [loggedIn EXCEPT ![c] = FALSE]
    /\ sresp' = [handler |-> "logout", client |-> c, code |-> 303,
                 sent |-> "", inserted |-> FALSE]
    /\ UNCHANGED <<reqVars, fitVars, pixVars, homeVars>>

NextSession ==
    \E c \in Clients :
        \/ cookieAdminHandler(c)
        \/ cookieAdminAddHandler(c)
        \/ cookieLogoutHandler(c)

SpecSession == InitSession /\ [][NextSession]_vars

(***************************************************************************)
(* Properties of the upload requests.                                      *)
(***************************************************************************)
\* The request passed the checks of adminAddHandler and its bytes were read.
Admitted(r) == pc[r] \notin {"idle", "auth"} /\ trace[r] # <<>>

\* The format sniffed from the upload is JPEG.
JpegSniffed(u) == ~DecodeConfig(u).err /\ DecodeConfig(u).format \in {"jpeg", "jpg"}

Rows == {people[i] : i \in 1 .. Len(people)}

Stages(r) == {trace[r][i] : i \in 1 .. Len(trace[r])}

IsPrefix(s, t) == Len(s) <= Len(t) /\ \A i \in 1 .. Len(s) : s[i] = t[i]

\* The 4000 x 3000 photograph with orientation tag 6.
Scenario6 == Jpeg(4000, 3000, [st |-> "ok", v |-> 6], TRUE, TRUE)

\* img is the photograph u turned a quarter clockwise: the top-left corner
\* of u is the top-right corner of img, and so on around the frame.
QuarterTurnOf(img, u) ==
    /\ img.w = u.h /\ img.h = u.w
    /\ DOMAIN img.pix = Corners(u.h, u.w)
    /\ img.pix[<<u.h - 1, 0>>].v = 1
    /\ img.pix[<<u.h - 1, u.w - 1>>].v = 2
    /\ img.pix[<<0, 0>>].v = 3
    /\ img.pix[<<0, u.w - 1>>].v = 4

\* C3 as stated. The 4000 x 3000 upload with tag 6, normalized with
\* maxW = maxH = 512, gives output dimensions (512, 384), turned 90 degrees
\* clockwise, encoded at quality 80.
Scenario6Stated ==
    \A r \in Reqs :
        (Admitted(r) /\ req[r].upload = Scenario6 /\ processed[r] # <<>>)
            => /\ <<processed[r].w, processed[r].h>> = <<512, 384>>
               /\ QuarterTurnOf(processed[r].pixels, Scenario6)
               /\ processed[r].quality = 80

\* C3 as amended. The same upload gives output dimensions (384, 512): the
\* quarter turn makes the 4000 x 3000 source 3000 x 4000 before it is
\* scaled; it is turned 90 degrees clockwise and encoded at quality 80.
Scenario6Law ==
    \A r \in Reqs :
        (Admitted(r) /\ req[r].upload = Scenario6 /\ processed[r] # <<>>)
            => /\ <<processed[r].w, processed[r].h>> = <<384, 512>>
               /\ QuarterTurnOf(processed[r].pixels, Scenario6)
               /\ processed[r].quality = 80

\* The scenario's photo has been stored as a 384 x 512 JPEG.
Scenario6Witness ==
    \E r \in Reqs :
        /\ pc[r] = "done" /\ req[r].upload = Scenario6
        /\ resp[r].code = 303
        /\ inserted[r].enc = "jpeg"
        /\ <<inserted[r].w, inserted[r].h>> = <<384, 512>>
        /\ [name |-> req[r].name, image |-> inserted[r]] \in Rows

\* C4. Pass-through: an admitted upload whose sniffed format is not JPEG
\* never enters the orientation, scale or encode steps; the request ends
\* with the uploaded bytes stored unchanged, and fails only when the INSERT
\* itself fails.
PassThroughLaw ==
    \A r \in Reqs :
        (Admitted(r) /\ ~JpegSniffed(req[r].upload)) =>
            /\ Stages(r) \cap {"OrientationResolved", "Scaled", "Encoded"} = {}
            /\ pc[r] \in {"detect", "raw", "done"}
            /\ orientation[r] = 0 /\ srcImg[r] = NoImage
            /\ dstDims[r] = <<>> /\ processed[r] = <<>>
            /\ pc[r] = "done" =>
                 \/ /\ resp[r] = Response(303, "/")
                    /\ inserted[r] = [enc |-> "raw", bytes |-> req[r].upload]
                    /\ \E row \in Rows : row.image = inserted[r]
                 \/ /\ resp[r] = Response(500, "database error")
                    /\ inserted[r] = <<>>

\* An upload with an unrecognizable header has been stored as uploaded.
PassThroughWitness ==
    \E r \in Reqs :
        /\ pc[r] = "done" /\ Admitted(r)
        /\ req[r].upload.kind = "unknown"
        /\ resp[r].code = 303
        /\ inserted[r] = [enc |-> "raw", bytes |-> req[r].upload]
        /\ trace[r] = <<"Received", "FormatDetected", "PassThrough", "Stored">>

JpegStages ==
    <<"Received", "FormatDetected", "OrientationResolved", "Scaled", "Encoded", "Stored">>

\* The 300 x 200 photograph without EXIF data.
SmallPhoto == Jpeg(300, 200, NoExif, TRUE, TRUE)

\* C5. A JPEG upload moves through OrientationResolved, Scaled, Encoded in
\* that order before Stored; what is stored is the encoder's output, never
\* the upload, also when the photo fits the box: the 300 x 200 upload
\* without EXIF data is re-encoded at 300 x 200 in its own orientation.
JpegPipelineLaw ==
    \A r \in Reqs :
        (Admitted(r) /\ JpegSniffed(req[r].upload)) =>
            /\ IsPrefix(trace[r], JpegStages)
            /\ inserted[r] # <<>> =>
                 /\ trace[r] = JpegStages
                 /\ inserted[r] = processed[r]
                 /\ inserted[r].enc = "jpeg"
                 /\ inserted[r].quality = JPEGQuality
                 /\ inserted[r] # [enc |-> "raw", bytes |-> req[r].upload]
                 /\ \E row \in Rows : row.image = inserted[r]
                 /\ req[r].upload = SmallPhoto =>
                      /\ <<inserted[r].w, inserted[r].h>> = <<300, 200>>
                      /\ orientation[r] = 1
                      /\ inserted[r].pixels = PixelBuffer(DecodedImage(SmallPhoto))

\* The small photo has been stored re-encoded at its own size.
JpegPipelineWitness ==
    \E r \in Reqs :
        /\ pc[r] = "done" /\ req[r].upload = SmallPhoto
        /\ inserted[r] # <<>>
        /\ inserted[r].enc = "jpeg"
        /\ <<inserted[r].w, inserted[r].h>> = <<300, 200>>
        /\ trace[r] = JpegStages

\* C6. A JPEG upload that image.Decode rejects ends the request with the
\* 500 answer of adminAddHandler; nothing is inserted, neither the upload
\* nor a partial result.
DecodeFailureLaw ==
    \A r \in Reqs :
        (Admitted(r) /\ JpegSniffed(req[r].upload) /\ ~req[r].upload.decodes) =>
            /\ pc[r] \in {"detect", "exif", "decode", "done"}
            /\ processed[r] = <<>> /\ inserted[r] = <<>>
            /\ \A row \in Rows : row.image # [enc |-> "raw", bytes |-> req[r].upload]
            /\ pc[r] = "done" => resp[r] = Response(500, "Failed to process image")

\* A request has been refused because its photo does not decode.
DecodeFailureWitness ==
    \E r \in Reqs :
        /\ pc[r] = "done" /\ Admitted(r)
        /\ JpegSniffed(req[r].upload) /\ ~req[r].upload.decodes
        /\ resp[r].code = 500
        /\ trace[r] = <<"Received", "FormatDetected">>

\* C7. When jpeg.Encode fails after the photo was oriented and scaled, the
\* request ends with the 500 answer and nothing is inserted; the upload is
\* never stored in place of the encoder's output, so every stored JPEG row
\* is within the box and no row holds the raw bytes of a JPEG upload.
EncodeFailureLaw ==
    /\ \A r \in Reqs :
        (Admitted(r) /\ JpegSniffed(req[r].upload)
           /\ req[r].upload.decodes /\ ~req[r].upload.encodes) =>
            /\ processed[r] = <<>> /\ inserted[r] = <<>>
            /\ pc[r] # "insert"
            /\ pc[r] = "done" =>
                 /\ resp[r] = Response(500, "Failed to process image")
                 /\ trace[r] = <<"Received", "FormatDetected", "OrientationResolved", "Scaled">>
    /\ \A row \in Rows :
          /\ row.image.enc = "jpeg" => row.image.w <= Box /\ row.image.h <= Box
          /\ row.image.enc = "raw" => ~JpegSniffed(row.image.bytes)

\* A request has been refused because the encoder failed on a scaled photo.
EncodeFailureWitness ==
    \E r \in Reqs :
        /\ pc[r] = "done" /\ Admitted(r)
        /\ req[r].upload.decodes /\ ~req[r].upload.encodes
        /\ dstDims[r] = <<512, 384>>
        /\ resp[r].code = 500

\* The EXIF data gives no orientation in 1..8.
NoValidTag(exif) == exif.st # "ok" \/ exif.v < 1 \/ exif.v > 8

\* C8. When the EXIF data is absent or corrupt, the tag missing or
\* unreadable, or its value outside 1..8, the orientation resolves to 1,
\* applyEXIFOrientation returns the decoded image unchanged, and the
\* request goes on: none of these cases produces an error.
OrientationFallbackLaw ==
    \A r \in Reqs :
        (Admitted(r) /\ JpegSniffed(req[r].upload) /\ NoValidTag(req[r].upload.exif)
           /\ pc[r] \notin {"detect", "exif"}) =>
            /\ orientation[r] = 1
            /\ pc[r] \in {"scale", "encode", "insert"} =>
                 srcImg[r] = DecodedImage(req[r].upload)
            /\ (req[r].upload.decodes /\ req[r].upload.encodes /\ pc[r] = "done") =>
                 resp[r] \in {Response(303, "/"), Response(500, "database error")}

\* A photo whose tag value is 9 has been oriented: it is as decoded.
OrientationFallbackWitness ==
    \E r \in Reqs :
        /\ pc[r] = "scale"
        /\ req[r].upload.exif = [st |-> "ok", v |-> 9]
        /\ orientation[r] = 1
        /\ srcImg[r] = DecodedImage(req[r].upload)

(***************************************************************************)
(* Properties of concurrent upload requests.                               *)
(***************************************************************************)
\* What the upload gives when its request is the only one: the bytes to
\* store, or the error.
Alone(u) ==
    IF ~JpegSniffed(u) THEN [err |-> FALSE, bytes |-> RawBytes(u)]
    ELSE processJPEGForDB(u, Box, Box)

\* The working image of the upload before and after the orientation step.
OwnImages(u) ==
    {DecodedImage(u), applyEXIFOrientation(DecodedImage(u), ResolveOrientation(u.exif))}

\* The locals of request r hold what its own upload gives.
OwnLocals(r) ==
    LET u == req[r].upload
    IN  /\ srcImg[r] # NoImage => srcImg[r] \in OwnImages(u)
        /\ dstDims[r] # <<>> =>
              \E img \in OwnImages(u) :
                  /\ img = srcImg[r]
                  /\ dstDims[r] = fitWithin(img.w, img.h, Box, Box)
        /\ processed[r] # <<>> =>
              (~Alone(u).err /\ processed[r] = Alone(u).bytes)
        /\ inserted[r] # <<>> =>
              (~Alone(u).err /\ inserted[r] = Alone(u).bytes)

\* The answer of a finished request is the one its upload gives alone; the
\* INSERT may fail for reasons of the database.
OwnOutcome(r) ==
    LET u == req[r].upload
    IN  pc[r] = "done" =>
            IF Alone(u).err
            THEN inserted[r] = <<>> /\ resp[r] = Response(500, "Failed to process image")
            ELSE \/ inserted[r] = Alone(u).bytes /\ resp[r] = Response(303, "/")
                 \/ inserted[r] = <<>> /\ resp[r] = Response(500, "database error")

\* C13. Concurrent normalizations do not interfere: whatever the
\* interleaving, the locals, the stored bytes and the error of every request
\* are those its own upload gives alone; two requests with the same upload
\* end the same way unless the database fails; no stage of a request is run
\* twice, so a failure is not retried; and every row holds the complete
\* result of one upload.
ConcurrencyLaw ==
    /\ \A r \in DOMAIN pc :
          Admitted(r) =>
              /\ OwnLocals(r)
              /\ OwnOutcome(r)
              /\ Cardinality(Stages(r)) = Len(trace[r])
    /\ \A r, s \in DOMAIN pc :
          (/\ Admitted(r) /\ Admitted(s)
           /\ pc[r] = "done" /\ pc[s] = "done"
           /\ req[r].upload = req[s].upload
           /\ resp[r].body # "database error" /\ resp[s].body # "database error")
              => (resp[r] = resp[s] /\ inserted[r] = inserted[s])
    /\ \A row \in Rows :
          \E q \in workload.menu : ~Alone(q.upload).err /\ row.image = Alone(q.upload).bytes

\* Two requests with photographs of different sizes are in the pipeline at
\* the same time, one encoded and waiting for its INSERT, the other scaled.
ConcurrencyWitness ==
    \E r, s \in DOMAIN pc :
        /\ r # s
        /\ pc[r] = "insert" /\ pc[s] = "encode"
        /\ dstDims[r] = <<384, 512>> /\ dstDims[s] = <<300, 200>>
        /\ processed[r] = Alone(req[r].upload).bytes

(***************************************************************************)
(* Properties of the home page and of the sort order.                      *)
(***************************************************************************)
\* Votes of person i in table votes with the given value of upvote.
VotesOf(i, value) ==
    Cardinality({k \in 1 .. Len(votes) : votes[k].person_id = i /\ votes[k].upvote = value})

\* The last exchange is a home page that was rendered.
HomeListed == hresp # <<>> /\ hresp.handler = "home" /\ hresp.code = 200

\* The page lists every person of the table exactly once.
ListsEveryone ==
    /\ Len(hresp.people) = Len(people)
    /\ \A i \in 1 .. Len(people) : \E k \in 1 .. Len(hresp.people) : hresp.people[k].ID = i

\* The person with the given id as the page lists it.
Listed(i) == CHOOSE p \in {hresp.people[k] : k \in 1 .. Len(hresp.people)} : p.ID = i

\* C14. In the programs whose query treats NULL vote rows as 0, the home
\* page gives every person Score = upvotes - downvotes and Upvotes = the
\* number of upvotes; a person without votes has Score 0 and Upvotes 0.
NullAsZeroLaw ==
    (HomeListed /\ variant \in {"main", "part_000"})
        => /\ ListsEveryone
           /\ \A i \in 1 .. Len(people) :
                 /\ Listed(i).Score = VotesOf(i, "TRUE") - VotesOf(i, "FALSE")
                 /\ Listed(i).Upvotes = VotesOf(i, "TRUE")
                 /\ (VotesOf(i, "TRUE") + VotesOf(i, "FALSE") = 0
                        => Listed(i).Score = 0 /\ Listed(i).Upvotes = 0)

\* main.go lists a person without votes at Score 0 next to a person whose
\* only vote is a downvote, at Score -1.
NullAsZeroWitness ==
    /\ HomeListed /\ variant = "main"
    /\ Len(people) = 2 /\ Len(votes) = 1
    /\ \E i, j \in 1 .. 2 :
          /\ VotesOf(i, "TRUE") + VotesOf(i, "FALSE") = 0
          /\ Listed(i).Score = 0 /\ Listed(i).Upvotes = 0
          /\ VotesOf(j, "FALSE") = 1
          /\ Listed(j).Score = 0 - 1 /\ Listed(j).Upvotes = 0

\* C15. In the program of part_001 the home page gives every person the
\* net score upvotes - downvotes, after any adminAdd and vote requests; a
\* person just added, without votes, is listed with Score 0.
NetScoreLaw ==
    (HomeListed /\ variant = "part_001")
        => /\ ListsEveryone
           /\ \A i \in 1 .. Len(people) :
                 Listed(i).Score = VotesOf(i, "TRUE") - VotesOf(i, "FALSE")

\* The three ORDER BY clauses of homeHandler.
OrderByClauses == {"p.name", "score DESC, p.name", "upvotes DESC, p.name"}

\* The last exchange is an /admin/sort request that must have no effect.
SortRefused ==
    /\ hresp # <<>> /\ hresp.handler = "sort"
    /\ \/ hresp.req.method # "POST"
       \/ hresp.req.pass # AdminPassword
       \/ hresp.req.order \notin SortWhitelist

\* C16. Sort-order whitelist: the stored sort_order is one of 'name',
\* 'score_desc', 'upvotes_desc' after table creation and any requests; an
\* /admin/sort request with a wrong password, a method other than POST or
\* an order outside the whitelist is refused and leaves the setting as it
\* was; the ORDER BY clause of homeHandler is one of the three fixed ones.
SortWhitelistLaw ==
    /\ sortOrder \in SortWhitelist
    /\ SortRefused => (sortOrder = hresp.before /\ hresp.code \in {400, 401, 405})
    /\ (hresp # <<>> /\ hresp.handler = "home") => hresp.orderBy \in OrderByClauses

\* An order that is no sort order was posted with the right password while
\* the setting was 'score_desc', and the setting is still 'score_desc'.
SortWhitelistWitness ==
    /\ SortRefused
    /\ hresp.req.method = "POST" /\ hresp.req.pass = AdminPassword
    /\ hresp.req.order = "name; DROP TABLE people"
    /\ hresp.code = 400
    /\ hresp.before = "score_desc" /\ sortOrder = "score_desc"

(***************************************************************************)
(* Properties of the cookie session.                                       *)
(***************************************************************************)
\* C17. In the cookie-session program /admin/add inserts a row only for a
\* client whose POST to /admin with the right password has succeeded with
\* no /logout since; a client that never gave the right password adds
\* nobody.
SessionLaw ==
    (sresp # <<>> /\ sresp.handler = "add" /\ sresp.inserted)
        => loggedIn[sresp.client]

====
